---- MODULE Spec2Model ----
(***************************************************************************)
(* Model of the boom-broom game core (src/src/game.rs): the Game state     *)
(* machine (Blank / Ongoing / Finished), the cursor, and the Tiles board   *)
(* with mine placement, numbering, recursive reveal and chord reveal.      *)
(* Instants and durations are not modelled: status() is its GameStatus     *)
(* component.  A panic (assert!, unreachable!) is the state "Aborted".     *)
(***************************************************************************)
EXTENDS Integers, Sequences, FiniteSets, TLC

\* Bounds of the explored configurations.
MaxTiles == 5
MaxMines == 2

VARIABLES
    cursor,      \* Game.cursor, <<x, y>>
    size,        \* Game.size, <<width, height>>
    mine_count,  \* Game.mine_count
    state,       \* tag of Game.state: "Blank", "Ongoing", "Finished" ("Aborted" after a
                 \* panic, "Diverged" inside a loop that never ends)
    tiles,       \* the Tiles held by Game.state, <<>> while Blank
    hist         \* history of the last intent: its name, the state tag before it
                 \* and, for an intent issued while Ongoing, the board before it
                 \* and the board it left before maybe_finish ran; and whether a
                 \* flag() has turned a tile Flagged since the board was created

vars == <<cursor, size, mine_count, state, tiles, hist>>

----------------------------------------------------------------------------
\* TileContent values
Mine == [kind |-> "Mine", n |-> 0]
Field(c) == [kind |-> "Field", n |-> c]
TrippedMine == [kind |-> "TrippedMine", n |-> 0]
FlaggedField(c) == [kind |-> "FlaggedField", n |-> c]

\* matches!(content, TileContent::Mistake(_))
IsMistake(content) == content.kind \in {"TrippedMine", "FlaggedField"}

Tile(m, c) == [mode |-> m, content |-> c]

\* `x as u8`
AsU8(x) == x % 256

\* `x as i32` for a usize x below 2^31 (every count of a board in range here)
AsI32(x) == x

\* i32 subtraction of two non-negative values: it cannot overflow
SubI32(a, b) == a - b

\* self.len() and self[x].len() of a Tiles value
Width(t) == Cardinality(DOMAIN t)
Height(t) == Cardinality(DOMAIN t[0])

\* the positions <<x, y>> of a Tiles value, and the tile self[x][y]
Positions(t) == {<<x, y>> : x \in DOMAIN t, y \in 0..(Cardinality(DOMAIN t[0]) - 1)}
At(t, p) == t[p[1]][p[2]]

\* the (x_offset, y_offset) pairs in the order the iterator yields them
Offsets ==
    << <<-1, -1>>, <<-1, 0>>, <<-1, 1>>,
       <<0, -1>>,  <<0, 0>>,  <<0, 1>>,
       <<1, -1>>,  <<1, 0>>,  <<1, 1>> >>

\* Tiles::neighbours, as the sequence of positions it collects
neighbours(t, p) ==
    LET x == p[1]
        y == p[2]
        valid(o) == ~ (   (o[1] = 0 /\ o[2] = 0)
                       \/ (o[1] < 0 /\ x = 0)
                       \/ (o[2] < 0 /\ y = 0)
                       \/ (o[1] > 0 /\ x = Width(t) - 1)
                       \/ (o[2] > 0 /\ y = Height(t) - 1))
        kept == SelectSeq(Offsets, valid)
    IN  [i \in 1..Len(kept) |-> <<x + kept[i][1], y + kept[i][2]>>]

\* Tiles::new_blank
new_blank(sz) ==
    [x \in 0..(sz[1] - 1) |-> [y \in 0..(sz[2] - 1) |-> Tile("Hidden", Field(0))]]

\* populate_mines without the check against the ignored position
RECURSIVE populate_mines_any_cell(_, _, _)
populate_mines_any_cell(t, count, ignore) ==
    IF count = 0 THEN {t}
    ELSE UNION { populate_mines_any_cell([t EXCEPT ![c[1]][c[2]].content = Mine],
                                         count - 1, ignore) :
                 c \in {q \in Positions(t) : At(t, q).content # Mine} }

\* Tiles::populate_mines: every board the random placement can produce
RECURSIVE populate_mines(_, _, _)
populate_mines(t, count, ignore) ==
    IF count = 0 THEN {t}
    ELSE UNION { populate_mines([t EXCEPT ![c[1]][c[2]].content = Mine], count - 1, ignore) :
                 c \in {q \in Positions(t) : q # ignore /\ At(t, q).content # Mine} }

\* a numbering pass whose outer loop starts at x = 1
number_fields_first_row(t) ==
    [x \in DOMAIN t |-> [y \in DOMAIN t[x] |->
        IF t[x][y].content.kind # "Field" \/ x = 0 THEN t[x][y]
        ELSE LET nbs == neighbours(t, <<x, y>>)
                 mines == Cardinality({i \in 1..Len(nbs) : At(t, nbs[i]).content = Mine})
             IN  [t[x][y] EXCEPT !.content = Field(AsU8(mines))]]]

\* the numbering pass of Tiles::new
number_fields(t) ==
    [x \in DOMAIN t |-> [y \in DOMAIN t[x] |->
        IF t[x][y].content.kind # "Field" THEN t[x][y]
        ELSE LET nbs == neighbours(t, <<x, y>>)
                 mines == Cardinality({i \in 1..Len(nbs) : At(t, nbs[i]).content = Mine})
             IN  [t[x][y] EXCEPT !.content = Field(AsU8(mines))]]]

\* number of Flagged positions in a sequence of positions
flag_count(t, nbs) == Cardinality({i \in 1..Len(nbs) : At(t, nbs[i]).mode = "Flagged"})

RECURSIVE tiles_reveal(_, _)
RECURSIVE reveal_neighbours(_, _, _)
RECURSIVE reveal_neighbours_break(_, _, _)

\* Tiles::reveal without the chord: an already Revealed tile returns at once
tiles_reveal_no_chord(t, p) ==
    CASE At(t, p).mode = "Hidden" ->
            LET t1 == [t EXCEPT ![p[1]][p[2]].mode = "Revealed"]
            IN  IF At(t1, p).content = Field(0)
                THEN reveal_neighbours(t1, neighbours(t1, p), 1)
                ELSE t1
      [] At(t, p).mode = "Flagged" -> t
      [] At(t, p).mode = "Revealed" -> t

\* Tiles::reveal with the chord cascading whatever the number of flags
tiles_reveal_any_chord(t, p) ==
    CASE At(t, p).mode = "Hidden" ->
            LET t1 == [t EXCEPT ![p[1]][p[2]].mode = "Revealed"]
            IN  IF At(t1, p).content = Field(0)
                THEN reveal_neighbours(t1, neighbours(t1, p), 1)
                ELSE t1
      [] At(t, p).mode = "Flagged" -> t
      [] At(t, p).mode = "Revealed" ->
            IF At(t, p).content.kind # "Field" THEN t
            ELSE reveal_neighbours(t, neighbours(t, p), 1)

\* Tiles::reveal with a Flagged tile handled like a Hidden one
tiles_reveal_flagged(t, p) ==
    CASE At(t, p).mode \in {"Hidden", "Flagged"} ->
            LET t1 == [t EXCEPT ![p[1]][p[2]].mode = "Revealed"]
            IN  IF At(t1, p).content = Field(0)
                THEN reveal_neighbours(t1, neighbours(t1, p), 1)
                ELSE t1
      [] At(t, p).mode = "Revealed" ->
            IF At(t, p).content.kind # "Field" THEN t
            ELSE IF At(t, p).content.n # AsU8(flag_count(t, neighbours(t, p))) THEN t
            ELSE reveal_neighbours(t, neighbours(t, p), 1)

\* Tiles::reveal cascading from any Field tile, not only from Field(0)
tiles_reveal_any_field(t, p) ==
    CASE At(t, p).mode = "Hidden" ->
            LET t1 == [t EXCEPT ![p[1]][p[2]].mode = "Revealed"]
            IN  IF At(t1, p).content.kind = "Field"
                THEN reveal_neighbours(t1, neighbours(t1, p), 1)
                ELSE t1
      [] At(t, p).mode = "Flagged" -> t
      [] At(t, p).mode = "Revealed" ->
            IF At(t, p).content.kind # "Field" THEN t
            ELSE IF At(t, p).content.n # AsU8(flag_count(t, neighbours(t, p))) THEN t
            ELSE reveal_neighbours(t, neighbours(t, p), 1)

\* Tiles::reveal
tiles_reveal(t, p) ==
    CASE At(t, p).mode = "Hidden" ->
            LET t1 == [t EXCEPT ![p[1]][p[2]].mode = "Revealed"]
            IN  IF At(t1, p).content = Field(0)
                THEN reveal_neighbours(t1, neighbours(t1, p), 1)
                ELSE t1
      [] At(t, p).mode = "Flagged" -> t
      [] At(t, p).mode = "Revealed" ->
            IF At(t, p).content.kind # "Field" THEN t
            ELSE IF At(t, p).content.n # AsU8(flag_count(t, neighbours(t, p))) THEN t
            ELSE reveal_neighbours(t, neighbours(t, p), 1)

\* the loop of Tiles::reveal leaving at the first neighbour that is not Hidden
reveal_neighbours_break(t, nbs, i) ==
    IF i > Len(nbs) THEN t
    ELSE IF At(t, nbs[i]).mode # "Hidden" THEN t
    ELSE reveal_neighbours_break(tiles_reveal(t, nbs[i]), nbs, i + 1)

\* the loop of Tiles::reveal over the neighbours, from the i-th on
reveal_neighbours(t, nbs, i) ==
    IF i > Len(nbs) THEN t
    ELSE reveal_neighbours(
            IF At(t, nbs[i]).mode = "Hidden" THEN tiles_reveal(t, nbs[i]) ELSE t,
            nbs, i + 1)

RECURSIVE reveal_trace(_, _)
RECURSIVE reveal_trace_neighbours(_, _, _)
RECURSIVE reveal_trace_neighbours_flagged(_, _, _)

\* the loop of Tiles::reveal also entering Flagged neighbours
reveal_trace_neighbours_flagged(acc, nbs, i) ==
    IF i > Len(nbs) THEN acc
    ELSE reveal_trace_neighbours_flagged(
            IF At(acc.tiles, nbs[i]).mode # "Revealed" THEN reveal_trace(acc, nbs[i]) ELSE acc,
            nbs, i + 1)

\* Tiles::reveal with its calls counted: acc.tiles is the board, acc.steps the
\* number of calls of Tiles::reveal entered so far and acc.switched the number
\* of executions of `tile.mode = TileMode::Revealed`
reveal_trace(acc, p) ==
    LET t == acc.tiles
        entered == [acc EXCEPT !.steps = @ + 1]
    IN  CASE At(t, p).mode = "Hidden" ->
                LET a1 == [entered EXCEPT !.tiles[p[1]][p[2]].mode = "Revealed",
                                          !.switched = @ + 1]
                IN  IF At(t, p).content = Field(0)
                    THEN reveal_trace_neighbours(a1, neighbours(t, p), 1)
                    ELSE a1
          [] At(t, p).mode = "Flagged" -> entered
          [] At(t, p).mode = "Revealed" ->
                IF At(t, p).content.kind # "Field" THEN entered
                ELSE IF At(t, p).content.n # AsU8(flag_count(t, neighbours(t, p))) THEN entered
                ELSE reveal_trace_neighbours(entered, neighbours(t, p), 1)

\* the loop of Tiles::reveal over the neighbours, with the calls counted
reveal_trace_neighbours(acc, nbs, i) ==
    IF i > Len(nbs) THEN acc
    ELSE reveal_trace_neighbours(
            IF At(acc.tiles, nbs[i]).mode = "Hidden" THEN reveal_trace(acc, nbs[i]) ELSE acc,
            nbs, i + 1)

\* one top-level call of Tiles::reveal on board t at p
reveal_call(t, p) == reveal_trace([tiles |-> t, steps |-> 0, switched |-> 0], p)

\* the unreachable!() of Tiles::reveal
reveal_unreachable(t, p) == At(t, p).mode = "Revealed" /\ At(t, p).content.kind # "Field"

\* Tiles::new without the reveal at the starting position
tiles_new_concealed(sz, starting_position, count) ==
    { number_fields(m) : m \in populate_mines(new_blank(sz), count, starting_position) }

\* Tiles::new: every board it can return (the assert is checked by move_on)
tiles_new(sz, starting_position, count) ==
    { tiles_reveal(number_fields(m), starting_position) :
        m \in populate_mines(new_blank(sz), count, starting_position) }

\* the assert of Tiles::new with >= for >
new_assert_inclusive(sz, count) == sz[1] * sz[2] >= count

\* the assert! of Tiles::new
new_assert(sz, count) == sz[1] * sz[2] > count

----------------------------------------------------------------------------
\* the sweep with the (Revealed, Mine) arm doing nothing
sweep_tile_untripped(tile) ==
    CASE tile.mode = "Flagged" /\ tile.content.kind = "Field" ->
            [tile EXCEPT !.content = FlaggedField(tile.content.n)]
      [] tile.mode = "Hidden" /\ tile.content = Mine ->
            [tile EXCEPT !.mode = "Revealed"]
      [] OTHER -> tile

\* the sweep with the (Hidden, Mine) arm doing nothing
sweep_tile_keep_hidden(tile) ==
    CASE tile.mode = "Flagged" /\ tile.content.kind = "Field" ->
            [tile EXCEPT !.content = FlaggedField(tile.content.n)]
      [] tile.mode = "Revealed" /\ tile.content = Mine ->
            Tile("Revealed", TrippedMine)
      [] OTHER -> tile

\* the match arms of Game::finish_game for one tile
sweep_tile(tile) ==
    CASE tile.mode = "Flagged" /\ tile.content.kind = "Field" ->
            [tile EXCEPT !.content = FlaggedField(tile.content.n)]
      [] tile.mode = "Flagged" /\ tile.content = Mine -> tile
      [] tile.mode \in {"Revealed", "Hidden"} /\ tile.content.kind = "Field" -> tile
      [] tile.mode = "Revealed" /\ tile.content = Mine ->
            Tile("Revealed", TrippedMine)
      [] tile.mode = "Hidden" /\ tile.content = Mine ->
            [tile EXCEPT !.mode = "Revealed"]
      [] OTHER -> tile

\* finish_game storing the swept board back into the Ongoing state
finish_game_ongoing(t) ==
    IF \E p \in Positions(t) : IsMistake(At(t, p).content)
    THEN [state |-> "Aborted", tiles |-> t]
    ELSE [state |-> "Ongoing",
          tiles |-> [x \in DOMAIN t |-> [y \in DOMAIN t[x] |-> sweep_tile(t[x][y])]]]

\* Game::finish_game, entered while Ongoing: the new state tag and board
finish_game(t) ==
    IF \E p \in Positions(t) : IsMistake(At(t, p).content)
    THEN [state |-> "Aborted", tiles |-> t]
    ELSE [state |-> "Finished",
          tiles |-> [x \in DOMAIN t |-> [y \in DOMAIN t[x] |-> sweep_tile(t[x][y])]]]

\* a win test that also wants every Mine tile Flagged
has_won_flags(t) ==
    \A p \in Positions(t) :
        IF At(t, p).content.kind = "Field" THEN At(t, p).mode = "Revealed"
        ELSE At(t, p).mode = "Flagged"

\* a win test that accepts a Flagged Field tile as uncovered
has_won_or_flagged(t) ==
    \A p \in Positions(t) :
        At(t, p).content.kind # "Field" \/ At(t, p).mode \in {"Revealed", "Flagged"}

\* has_won of Game::maybe_finish
has_won(t) ==
    \A p \in Positions(t) : At(t, p).content.kind # "Field" \/ At(t, p).mode = "Revealed"

\* a loss test looking for a Revealed Mistake instead of a Revealed Mine
has_lost_mistake(t) ==
    \E p \in Positions(t) : At(t, p).mode = "Revealed" /\ IsMistake(At(t, p).content)

\* has_lost of Game::maybe_finish
has_lost(t) ==
    \E p \in Positions(t) : At(t, p).mode = "Revealed" /\ At(t, p).content = Mine

\* Game::maybe_finish, entered while Ongoing
maybe_finish(t) ==
    IF has_won(t) \/ has_lost(t) THEN finish_game(t)
    ELSE [state |-> "Ongoing", tiles |-> t]

\* status matching Mistake(FlaggedField(_)) only
status_of_flagged_field(st, t) ==
    CASE st = "Blank" -> "Initial"
      [] st = "Ongoing" -> "Ongoing"
      [] st = "Finished" ->
            IF \E p \in Positions(t) : At(t, p).content.kind = "FlaggedField"
            THEN "Lost" ELSE "Won"
      [] OTHER -> "Aborted"

\* Game::status (GameStatus component)
status_of(st, t) ==
    CASE st = "Blank" -> "Initial"
      [] st = "Ongoing" -> "Ongoing"
      [] st = "Finished" ->
            IF \E p \in Positions(t) : IsMistake(At(t, p).content) THEN "Lost" ELSE "Won"
      [] OTHER -> "Aborted"

status == status_of(state, tiles)

\* the tiles in iteration order (iter().flatten())
flatten(t) ==
    [i \in 1..(Width(t) * Height(t)) |-> t[(i - 1) \div Height(t)][(i - 1) % Height(t)]]

RECURSIVE count_flagged(_, _)
count_flagged(s, i) ==
    IF i > Len(s) THEN 0
    ELSE (IF s[i].mode = "Flagged" THEN 1 ELSE 0) + count_flagged(s, i + 1)

\* unflagged_bombs computed unsigned, saturating at 0
unflagged_bombs_of_saturating(st, t, count) ==
    IF st \notin {"Ongoing", "Finished"} THEN AsI32(count)
    ELSE IF count_flagged(flatten(t), 1) > count THEN 0
    ELSE SubI32(AsI32(count), AsI32(count_flagged(flatten(t), 1)))

\* Game::unflagged_bombs
unflagged_bombs_of(st, t, count) ==
    IF st \notin {"Ongoing", "Finished"} THEN AsI32(count)
    ELSE SubI32(AsI32(count), AsI32(count_flagged(flatten(t), 1)))

unflagged_bombs == unflagged_bombs_of(state, tiles, mine_count)

----------------------------------------------------------------------------
History(op, mid, flagged) ==
    [op |-> op, state |-> state,
     tiles |-> IF state = "Ongoing" THEN tiles ELSE <<>>,
     mid |-> IF state = "Ongoing" THEN mid ELSE <<>>,
     flagged |-> flagged]

Init ==
    /\ size \in {sz \in (1..MaxTiles) \X (1..MaxTiles) : sz[1] * sz[2] <= MaxTiles}
    /\ mine_count \in 0..MaxMines
    /\ cursor = <<0, 0>>
    /\ state = "Blank"
    /\ tiles = <<>>
    /\ hist = [op |-> "new", state |-> "Blank", tiles |-> <<>>, mid |-> <<>>,
               flagged |-> FALSE]

\* move_on starting the next round straight from Finished
move_on_restart(op) ==
    /\ state \in {"Blank", "Finished"}
    /\ IF ~ new_assert(size, mine_count)
       THEN /\ state' = "Aborted"
            /\ tiles' = tiles
       ELSE IF tiles_new(size, cursor, mine_count) = {}
       THEN /\ state' = "Diverged"
            /\ tiles' = tiles
       ELSE /\ state' = "Ongoing"
            /\ tiles' \in tiles_new(size, cursor, mine_count)
    /\ hist' = History(op, tiles', FALSE)
    /\ UNCHANGED <<cursor, size, mine_count>>

\* Game::move_on, called by flag() and reveal() outside Ongoing
move_on(op) ==
    /\ state \in {"Blank", "Finished"}
    /\ IF state = "Blank"
       THEN IF ~ new_assert(size, mine_count)
            THEN /\ state' = "Aborted"
                 /\ tiles' = tiles
            ELSE IF tiles_new(size, cursor, mine_count) = {}
            THEN \* the loop of populate_mines finds no free cell and never ends
                 /\ state' = "Diverged"
                 /\ tiles' = tiles
            ELSE /\ state' = "Ongoing"
                 /\ tiles' \in tiles_new(size, cursor, mine_count)
       ELSE /\ state' = "Blank"
            /\ tiles' = <<>>
    /\ hist' = History(op, tiles', FALSE)
    /\ UNCHANGED <<cursor, size, mine_count>>

\* a toggle that also hides a Revealed tile
flag_mode_hide(mode) ==
    CASE mode = "Hidden" -> "Flagged"
      [] mode = "Flagged" -> "Hidden"
      [] mode = "Revealed" -> "Hidden"

\* the toggle of Game::flag
flag_mode(mode) ==
    CASE mode = "Hidden" -> "Flagged"
      [] mode = "Flagged" -> "Hidden"
      [] mode = "Revealed" -> "Revealed"

\* Game::flag
flag ==
    \/ move_on("flag")
    \/ /\ state = "Ongoing"
       /\ tiles' = [tiles EXCEPT ![cursor[1]][cursor[2]].mode = flag_mode(At(tiles, cursor).mode)]
       /\ hist' = History("flag", tiles', hist.flagged \/ At(tiles, cursor).mode = "Hidden")
       /\ UNCHANGED <<cursor, size, mine_count, state>>

\* Game::reveal
reveal ==
    \/ move_on("reveal")
    \/ /\ state = "Ongoing"
       /\ IF reveal_unreachable(tiles, cursor)
          THEN /\ state' = "Aborted"
               /\ tiles' = tiles
               /\ hist' = History("reveal", tiles, hist.flagged)
          ELSE LET mid == tiles_reveal(tiles, cursor)
                   fin == maybe_finish(mid)
               IN  /\ state' = fin.state
                   /\ tiles' = fin.tiles
                   /\ hist' = History("reveal", mid, hist.flagged)
       /\ UNCHANGED <<cursor, size, mine_count>>

saturating_sub(a) == IF a = 0 THEN 0 ELSE a - 1
saturating_add(a) == a + 1
\* usize::clamp with the upper bound dropped
clamp_low(a, lo, hi) == IF a < lo THEN lo ELSE a

clamp(a, lo, hi) == IF a < lo THEN lo ELSE IF a > hi THEN hi ELSE a

\* CursorDirection
Directions == {"Up", "Down", "Left", "Right"}

\* the cursor Game::move_cursor leaves, from cursor c on a board of size sz
cursor_after(c, sz, direction) ==
    LET moved == CASE direction = "Up" -> <<c[1], saturating_sub(c[2])>>
                   [] direction = "Down" -> <<c[1], saturating_add(c[2])>>
                   [] direction = "Left" -> <<saturating_sub(c[1]), c[2]>>
                   [] direction = "Right" -> <<saturating_add(c[1]), c[2]>>
    IN  <<clamp(moved[1], 0, sz[1] - 1), clamp(moved[2], 0, sz[2] - 1)>>

\* Game::move_cursor
move_cursor ==
    /\ state \notin {"Aborted", "Diverged"}
    /\ \E direction \in Directions : cursor' = cursor_after(cursor, size, direction)
    /\ hist' = History("move_cursor", tiles, hist.flagged)
    /\ UNCHANGED <<size, mine_count, state, tiles>>

Next == flag \/ reveal \/ move_cursor

Spec == Init /\ [][Next]_vars

----------------------------------------------------------------------------
\* The intent that led to the current state was issued while Ongoing and did
\* not panic.
ActedOngoing(op) == hist.op = op /\ hist.state = "Ongoing" /\ state # "Aborted"

\* the neighbour positions of p, as a set
NeighbourSet(t, p) == {neighbours(t, p)[i] : i \in 1..Len(neighbours(t, p))}

\* C1: the board created by the first flag()/reveal() holds exactly
\* mine_count Mine tiles and none at the starting position (the cursor), and
\* every Ongoing board holds exactly mine_count Mine tiles.
C1_MinesPlaced ==
    state = "Ongoing" =>
        /\ new_assert(size, mine_count)
        /\ Cardinality({p \in Positions(tiles) : At(tiles, p).content = Mine}) = mine_count
        /\ hist.state = "Blank" => At(tiles, cursor).content # Mine

C1_Witness ==
    /\ state = "Ongoing"
    /\ hist.state = "Blank"
    /\ hist.op \in {"flag", "reveal"}
    /\ mine_count = 2
    /\ cursor # <<0, 0>>
    /\ At(tiles, <<0, 0>>).content = Mine

\* C2 as stated: in every state that holds a board, every Field(n) tile has
\* n equal to the number of its neighbours whose content is Mine.
C2_Original ==
    state \in {"Ongoing", "Finished"} =>
        \A p \in Positions(tiles) :
            At(tiles, p).content.kind = "Field" =>
                At(tiles, p).content.n =
                    Cardinality({q \in NeighbourSet(tiles, p) : At(tiles, q).content = Mine})

\* C2 as amended: in every state that holds a board, every Field(n) tile has
\* n equal to the number of its neighbours whose content is Mine or
\* Mistake(TrippedMine); while Ongoing no tile holds Mistake content, so n is
\* then the number of Mine neighbours.
C2_FieldCounts ==
    state \in {"Ongoing", "Finished"} =>
        /\ \A p \in Positions(tiles) :
              At(tiles, p).content.kind = "Field" =>
                  At(tiles, p).content.n =
                      Cardinality({q \in NeighbourSet(tiles, p) :
                                      At(tiles, q).content \in {Mine, TrippedMine}})
        /\ state = "Ongoing" =>
              \A p \in Positions(tiles) : ~ IsMistake(At(tiles, p).content)

C2_Witness ==
    /\ state = "Finished"
    /\ \E p \in Positions(tiles) :
          /\ At(tiles, p).content.kind = "Field"
          /\ At(tiles, p).content.n = 2
          /\ \E q \in NeighbourSet(tiles, p) : At(tiles, q).content = TrippedMine
          /\ \E q \in NeighbourSet(tiles, p) : At(tiles, q).content = Mine

\* C3: when the reveal() that creates the board leaves every Field tile
\* Revealed, the match is Finished and status() is Won when it returns.
C3_FirstRevealWins ==
    (/\ hist.op = "reveal"
     /\ hist.state = "Blank"
     /\ state \in {"Ongoing", "Finished"}
     /\ \A p \in Positions(tiles) :
           At(tiles, p).content.kind = "Field" => At(tiles, p).mode = "Revealed")
    => (state = "Finished" /\ status = "Won")

\* C4: a reveal() issued while Ongoing that leaves every Field tile Revealed
\* and no Mine tile Revealed ends in Finished with status() Won, whatever the
\* modes (Flagged or Hidden) of the mine tiles.
C4_WinDetected ==
    (/\ ActedOngoing("reveal")
     /\ \A p \in Positions(hist.mid) :
           /\ At(hist.mid, p).content.kind = "Field" => At(hist.mid, p).mode = "Revealed"
           /\ At(hist.mid, p).content = Mine => At(hist.mid, p).mode # "Revealed")
    => (state = "Finished" /\ status = "Won")

C4_Witness ==
    /\ ActedOngoing("reveal")
    /\ \A p \in Positions(hist.mid) :
          /\ At(hist.mid, p).content.kind = "Field" => At(hist.mid, p).mode = "Revealed"
          /\ At(hist.mid, p).content = Mine => At(hist.mid, p).mode # "Revealed"
    /\ \E p \in Positions(hist.tiles) : At(hist.tiles, p).mode = "Hidden"
                                        /\ At(hist.tiles, p).content.kind = "Field"
    /\ \E p \in Positions(hist.mid) : At(hist.mid, p) = Tile("Flagged", Mine)
    /\ \E p \in Positions(hist.mid) : At(hist.mid, p) = Tile("Hidden", Mine)

\* C5: a reveal() issued while Ongoing that makes a Mine tile Revealed ends in
\* Finished with status() Lost and that tile Revealed + Mistake(TrippedMine).
C5_LossDetected ==
    ActedOngoing("reveal") =>
        \A p \in Positions(hist.mid) :
            (At(hist.mid, p) = Tile("Revealed", Mine) /\ At(hist.tiles, p).mode # "Revealed")
            => /\ state = "Finished"
               /\ status = "Lost"
               /\ At(tiles, p) = Tile("Revealed", TrippedMine)

C5_Witness ==
    /\ ActedOngoing("reveal")
    /\ \E p \in Positions(hist.mid) :
          At(hist.mid, p) = Tile("Revealed", Mine) /\ At(hist.tiles, p).mode = "Hidden"

\* C6: the finish sweep maps the board at the moment of finishing tile by
\* tile: Flagged+Field(n) -> Flagged+Mistake(FlaggedField(n)); Flagged+Mine,
\* Revealed+Field and Hidden+Field unchanged; Hidden+Mine -> Revealed+Mine;
\* and no Finished board has a Hidden Mine tile.
C6_FinishSweep ==
    /\ (state = "Finished" /\ hist.state = "Ongoing") =>
          \A p \in Positions(hist.mid) :
             LET old == At(hist.mid, p)
                 new == At(tiles, p)
             IN  /\ (old.mode = "Flagged" /\ old.content.kind = "Field") =>
                        new = Tile("Flagged", FlaggedField(old.content.n))
                 /\ (old.mode = "Flagged" /\ old.content = Mine) => new = old
                 /\ (old.mode \in {"Revealed", "Hidden"} /\ old.content.kind = "Field") =>
                        new = old
                 /\ (old.mode = "Hidden" /\ old.content = Mine) =>
                        new = Tile("Revealed", Mine)
    /\ state = "Finished" =>
          \A p \in Positions(tiles) : At(tiles, p) # Tile("Hidden", Mine)

C6_Witness ==
    /\ state = "Finished"
    /\ hist.state = "Ongoing"
    /\ \E p \in Positions(hist.mid) :
          At(hist.mid, p).mode = "Flagged" /\ At(hist.mid, p).content.kind = "Field"
          /\ At(hist.mid, p).content.n > 0
    /\ \E p \in Positions(hist.mid) : At(hist.mid, p) = Tile("Hidden", Mine)
    /\ \E p \in Positions(hist.mid) : At(hist.mid, p) = Tile("Hidden", Field(1))

\* C7: when a flag() issued while Ongoing returns with every Field tile
\* Revealed or with some Mine tile Revealed, the match is Finished.
C7_FlagReevaluates ==
    (/\ hist.op = "flag"
     /\ hist.state = "Ongoing"
     /\ \/ \A p \in Positions(tiles) :
              At(tiles, p).content.kind \in {"Field", "FlaggedField"}
                  => At(tiles, p).mode = "Revealed"
        \/ \E p \in Positions(tiles) :
              At(tiles, p).mode = "Revealed" /\ At(tiles, p).content \in {Mine, TrippedMine})
    => state = "Finished"

\* C8: unflagged_bombs() is mine_count while Blank and mine_count minus the
\* number of Flagged tiles when a board exists; a flag() turning a Hidden tile
\* Flagged lowers it by 1, one turning a Flagged tile Hidden raises it by 1;
\* it is negative when more tiles are Flagged than there are mines.
C8_UnflaggedBombs ==
    LET flagged(t) == Cardinality({p \in Positions(t) : At(t, p).mode = "Flagged"})
        before == unflagged_bombs_of("Ongoing", hist.tiles, mine_count)
    IN  /\ state = "Blank" => unflagged_bombs = mine_count
        /\ state \in {"Ongoing", "Finished"} =>
              /\ unflagged_bombs = mine_count - flagged(tiles)
              /\ flagged(tiles) > mine_count => unflagged_bombs < 0
        /\ ActedOngoing("flag") =>
              /\ (At(hist.tiles, cursor).mode = "Hidden" /\ At(tiles, cursor).mode = "Flagged")
                    => unflagged_bombs = before - 1
              /\ (At(hist.tiles, cursor).mode = "Flagged" /\ At(tiles, cursor).mode = "Hidden")
                    => unflagged_bombs = before + 1

C8_Witness ==
    /\ ActedOngoing("flag")
    /\ At(hist.tiles, cursor).mode = "Hidden"
    /\ At(tiles, cursor).mode = "Flagged"
    /\ mine_count = 1
    /\ unflagged_bombs = -1

\* C9: a reveal() issued while Ongoing on a Revealed Field(n) tile with
\* exactly n Flagged neighbours leaves every neighbour that was Hidden
\* Revealed, a Field(0) tile among them has its own Hidden neighbours
\* Revealed too, and no Flagged neighbour changes mode.
C9_SatisfiedChord ==
    (/\ ActedOngoing("reveal")
     /\ At(hist.tiles, cursor).mode = "Revealed"
     /\ At(hist.tiles, cursor).content.kind = "Field"
     /\ At(hist.tiles, cursor).content.n =
            Cardinality({q \in NeighbourSet(hist.tiles, cursor) :
                            At(hist.tiles, q).mode = "Flagged"}))
    => \A q \in NeighbourSet(hist.tiles, cursor) :
          /\ At(hist.tiles, q).mode = "Hidden" =>
                /\ At(tiles, q).mode = "Revealed"
                /\ At(hist.tiles, q).content = Field(0) =>
                      \A r \in NeighbourSet(hist.tiles, q) :
                          At(hist.tiles, r).mode = "Hidden" => At(tiles, r).mode = "Revealed"
          /\ At(hist.tiles, q).mode = "Flagged" => At(tiles, q).mode = "Flagged"

C9_Witness ==
    /\ ActedOngoing("reveal")
    /\ At(hist.tiles, cursor).mode = "Revealed"
    /\ At(hist.tiles, cursor).content.kind = "Field"
    /\ At(hist.tiles, cursor).content.n > 0
    /\ At(hist.tiles, cursor).content.n =
           Cardinality({q \in NeighbourSet(hist.tiles, cursor) :
                           At(hist.tiles, q).mode = "Flagged"})
    /\ \E q \in NeighbourSet(hist.tiles, cursor) :
          /\ At(hist.tiles, q) = Tile("Hidden", Field(0))
          /\ \E r \in NeighbourSet(hist.tiles, q) \ NeighbourSet(hist.tiles, cursor) :
                r # cursor /\ At(hist.tiles, r).mode = "Hidden"
                /\ At(tiles, r).mode = "Revealed"

\* C10: a reveal() issued while Ongoing on a Revealed Field(n) tile whose
\* number of Flagged neighbours differs from n changes no tile and leaves the
\* match Ongoing.
C10_UnsatisfiedChordNoOp ==
    (/\ hist.op = "reveal"
     /\ hist.state = "Ongoing"
     /\ At(hist.tiles, cursor).mode = "Revealed"
     /\ At(hist.tiles, cursor).content.kind = "Field"
     /\ At(hist.tiles, cursor).content.n #
            Cardinality({q \in NeighbourSet(hist.tiles, cursor) :
                            At(hist.tiles, q).mode = "Flagged"}))
    => (tiles = hist.tiles /\ state = "Ongoing")


\* C11 as stated: in an Ongoing state, the reveal step on a tile that is
\* already Revealed with content Field(0) changes no tile's mode or content.
C11_Original ==
    (ActedOngoing("reveal") /\ At(hist.tiles, cursor) = Tile("Revealed", Field(0)))
    => hist.mid = hist.tiles

\* C11 as amended: in an Ongoing state, the reveal step on a tile that is
\* already Revealed with content Field(0) changes no tile when none of its
\* neighbours is Hidden or at least one is Flagged; otherwise it only turns
\* Hidden tiles Revealed, its Hidden neighbours among them.
C11_ZeroTileReveal ==
    (ActedOngoing("reveal") /\ At(hist.tiles, cursor) = Tile("Revealed", Field(0)))
    => LET nbs == NeighbourSet(hist.tiles, cursor)
           hidden == {q \in nbs : At(hist.tiles, q).mode = "Hidden"}
           flagged == {q \in nbs : At(hist.tiles, q).mode = "Flagged"}
       IN  /\ (hidden = {} \/ flagged # {}) => hist.mid = hist.tiles
           /\ (hidden # {} /\ flagged = {}) =>
                 \A q \in hidden : At(hist.mid, q).mode = "Revealed"
           /\ \A p \in Positions(hist.tiles) :
                 At(hist.mid, p) # At(hist.tiles, p) =>
                     /\ At(hist.tiles, p).mode = "Hidden"
                     /\ At(hist.mid, p) = [At(hist.tiles, p) EXCEPT !.mode = "Revealed"]

C11_Witness ==
    /\ ActedOngoing("reveal")
    /\ At(hist.tiles, cursor) = Tile("Revealed", Field(0))
    /\ \E q \in NeighbourSet(hist.tiles, cursor) : At(hist.tiles, q).mode = "Flagged"
    /\ \E q \in NeighbourSet(hist.tiles, cursor) : At(hist.tiles, q).mode = "Hidden"
    /\ hist.mid = hist.tiles
    /\ state = "Ongoing"

\* C12: the reveal step applied to a Flagged tile changes no tile's mode or
\* content, whether the tile's content is Mine or Field.
C12_FlaggedRevealNoOp ==
    (ActedOngoing("reveal") /\ At(hist.tiles, cursor).mode = "Flagged")
    => hist.mid = hist.tiles

C12_Witness ==
    /\ ActedOngoing("reveal")
    /\ At(hist.tiles, cursor) = Tile("Flagged", Field(0))
    /\ \E q \in NeighbourSet(hist.tiles, cursor) : At(hist.tiles, q).mode = "Hidden"
    /\ \E p \in Positions(hist.tiles) : At(hist.tiles, p) = Tile("Flagged", Mine)
    /\ hist.mid = hist.tiles


\* C13: from Blank (with a configuration that passes the assert of
\* Tiles::new), a flag() or reveal() leaves the match Ongoing with a board of
\* the configured size whose tile at the cursor is Revealed and no tile
\* Flagged, and leaves the cursor unchanged.
C13_FirstAction ==
    [][(state = "Blank" /\ new_assert(size, mine_count) /\ hist'.op \in {"flag", "reveal"})
       => /\ state' = "Ongoing"
          /\ cursor' = cursor
          /\ Positions(tiles') = (0..(size[1] - 1)) \X (0..(size[2] - 1))
          /\ At(tiles', cursor).mode = "Revealed"
          /\ \A p \in Positions(tiles') : At(tiles', p).mode # "Flagged"]_vars

C13_Witness ==
    /\ state = "Ongoing"
    /\ hist.state = "Blank"
    /\ hist.op = "flag"
    /\ cursor # <<0, 0>>
    /\ At(tiles, cursor).mode = "Revealed"
    /\ \E p \in Positions(tiles) : At(tiles, p).mode = "Hidden"

\* C14: in Finished, a flag() or reveal() resets the match to Blank with no
\* board and leaves cursor, size and mine_count unchanged; with a
\* configuration that passes the assert of Tiles::new the state tag only
\* moves Blank -> Ongoing -> Finished -> Blank.
C14_Lifecycle ==
    [][/\ (state = "Finished" /\ hist'.op \in {"flag", "reveal"})
          => /\ state' = "Blank"
             /\ tiles' = <<>>
             /\ cursor' = cursor /\ size' = size /\ mine_count' = mine_count
       /\ (new_assert(size, mine_count) /\ state' # state)
          => <<state, state'>> \in { <<"Blank", "Ongoing">>,
                                      <<"Ongoing", "Finished">>,
                                      <<"Finished", "Blank">> }]_vars

C14_Witness ==
    /\ state = "Blank"
    /\ hist.state = "Finished"
    /\ hist.op = "flag"
    /\ cursor # <<0, 0>>
    /\ tiles = <<>>


\* C15: the cursor always satisfies 0 <= x < width and 0 <= y < height;
\* move_cursor moves it one cell in the direction asked, or leaves it where
\* it is at the boundary in that direction, and changes neither the state
\* tag nor any tile, in any phase.
C15_Cursor ==
    /\ [](/\ cursor[1] \in 0..(size[1] - 1)
          /\ cursor[2] \in 0..(size[2] - 1)
          /\ \A d \in Directions :
                LET c == cursor_after(cursor, size, d)
                    dx == c[1] - cursor[1]
                    dy == c[2] - cursor[2]
                IN  /\ d = "Up" => dx = 0 /\ dy = (IF cursor[2] = 0 THEN 0 ELSE -1)
                    /\ d = "Down" => dx = 0 /\ dy = (IF cursor[2] = size[2] - 1 THEN 0 ELSE 1)
                    /\ d = "Left" => dy = 0 /\ dx = (IF cursor[1] = 0 THEN 0 ELSE -1)
                    /\ d = "Right" => dy = 0 /\ dx = (IF cursor[1] = size[1] - 1 THEN 0 ELSE 1))
    /\ [][hist'.op = "move_cursor"
          => /\ state' = state
             /\ tiles' = tiles
             /\ cursor' \in {cursor_after(cursor, size, d) : d \in Directions}]_vars

C15_Witness ==
    /\ hist.op = "move_cursor"
    /\ state = "Finished"
    /\ size = <<2, 2>>
    /\ cursor = <<1, 1>>


\* C16: no tile holds Mistake content in an Ongoing state; a step writes
\* Mistake content only as the finish sweep (the step from Ongoing to
\* Finished), and the sweep runs once per round: a Finished board is never
\* changed again until the reset, and the reset happens only from Finished.
C16_MistakeOnlyBySweep ==
    /\ [](state = "Ongoing" => \A p \in Positions(tiles) : ~ IsMistake(At(tiles, p).content))
    /\ [][/\ (/\ state' \in {"Ongoing", "Finished"}
              /\ \E p \in Positions(tiles') :
                    /\ IsMistake(At(tiles', p).content)
                    /\ state \in {"Ongoing", "Finished"} => At(tiles, p).content # At(tiles', p).content)
             => (state = "Ongoing" /\ state' = "Finished" /\ hist'.op = "reveal")
          /\ state = "Finished" => (tiles' = tiles \/ (state' = "Blank" /\ tiles' = <<>>))
          /\ (state' = "Finished" /\ state # "Finished") => state = "Ongoing"
          /\ (state' = "Blank" /\ state # "Blank") => state = "Finished"]_vars

C16_Witness ==
    /\ state = "Finished"
    /\ hist.state = "Ongoing"
    /\ \A p \in Positions(hist.mid) : ~ IsMistake(At(hist.mid, p).content)
    /\ \E p \in Positions(tiles) : At(tiles, p).content = TrippedMine
    /\ \E p \in Positions(tiles) : At(tiles, p).content.kind = "FlaggedField"


\* C17: with mine_count >= width*height no state holds a board, and the
\* first flag()/reveal() (the one issued in Blank) aborts.
C17_InvalidConfigAborts ==
    /\ [](~ (size[1] * size[2] > mine_count)
             => (state \in {"Blank", "Aborted"} /\ tiles = <<>>))
    /\ [][(/\ ~ (size[1] * size[2] > mine_count)
           /\ state = "Blank"
           /\ hist'.op \in {"flag", "reveal"})
          => state' = "Aborted"]_vars

C17_Witness ==
    /\ state = "Aborted"
    /\ hist.op = "reveal"
    /\ hist.state = "Blank"
    /\ size = <<2, 1>>
    /\ mine_count = 2
    /\ cursor = <<1, 0>>


\* C18: with a configuration that passes the assert of Tiles::new no intent
\* panics or hangs: the state is never Aborted or Diverged, the cursor
\* indexes a tile of every board, and in an Ongoing state no tile holds
\* Mistake content (the sweep never meets one) and every Revealed tile holds
\* Field content (a chord is never evaluated on anything else).
C18_NoAbort ==
    size[1] * size[2] > mine_count =>
        /\ state \in {"Blank", "Ongoing", "Finished"}
        /\ state \in {"Ongoing", "Finished"} => cursor \in Positions(tiles)
        /\ state = "Ongoing" =>
              \A p \in Positions(tiles) :
                 /\ ~ IsMistake(At(tiles, p).content)
                 /\ At(tiles, p).mode = "Revealed" => At(tiles, p).content.kind = "Field"
                 /\ ~ reveal_unreachable(tiles, p)

C18_Witness ==
    /\ size[1] * size[2] > mine_count
    /\ ActedOngoing("reveal")
    /\ state = "Ongoing"
    /\ At(hist.tiles, cursor).mode = "Revealed"
    /\ hist.mid # hist.tiles
    /\ \E p \in Positions(tiles) : At(tiles, p) = Tile("Flagged", Mine)


\* C19: a reveal() issued while Ongoing that leaves every Field tile Revealed
\* and some Mine tile Revealed finishes the match with status() Lost; in
\* every Finished state status() is Lost when some tile holds Mistake
\* content and Won otherwise.
C19_TieBreak ==
    /\ (/\ ActedOngoing("reveal")
        /\ \A p \in Positions(hist.mid) :
              At(hist.mid, p).content.kind = "Field" => At(hist.mid, p).mode = "Revealed"
        /\ \E p \in Positions(hist.mid) : At(hist.mid, p) = Tile("Revealed", Mine))
       => (state = "Finished" /\ status = "Lost")
    /\ state = "Finished" =>
          status = (IF \E p \in Positions(tiles) :
                          At(tiles, p).content.kind \notin {"Mine", "Field"}
                    THEN "Lost" ELSE "Won")

C19_Witness ==
    /\ ActedOngoing("reveal")
    /\ \A p \in Positions(hist.mid) :
          At(hist.mid, p).content.kind = "Field" => At(hist.mid, p).mode = "Revealed"
    /\ \E p \in Positions(hist.mid) : At(hist.mid, p) = Tile("Revealed", Mine)
    /\ state = "Finished"
    /\ status = "Lost"


\* C20: while one board exists (a step between two states that hold it), a
\* Revealed tile stays Revealed and a tile becomes Revealed only from Hidden,
\* never from Flagged; a flag() issued while Ongoing changes nothing but the
\* mode of the tile at the cursor: Hidden <-> Flagged, Revealed unaffected.
C20_RevealedIsTerminal ==
    [][/\ (state \in {"Ongoing", "Finished"} /\ state' \in {"Ongoing", "Finished"}) =>
             \A p \in Positions(tiles) :
                /\ At(tiles, p).mode = "Revealed" => At(tiles', p).mode = "Revealed"
                /\ (At(tiles', p).mode = "Revealed" /\ At(tiles, p).mode # "Revealed")
                      => At(tiles, p).mode = "Hidden"
       /\ (state = "Ongoing" /\ hist'.op = "flag") =>
             /\ state' = "Ongoing"
             /\ \A p \in Positions(tiles) :
                   /\ At(tiles', p).content = At(tiles, p).content
                   /\ p # cursor => At(tiles', p) = At(tiles, p)
             /\ At(tiles', cursor).mode =
                   (CASE At(tiles, cursor).mode = "Hidden" -> "Flagged"
                      [] At(tiles, cursor).mode = "Flagged" -> "Hidden"
                      [] At(tiles, cursor).mode = "Revealed" -> "Revealed")]_vars

C20_Witness ==
    /\ ActedOngoing("flag")
    /\ At(hist.tiles, cursor).mode = "Revealed"
    /\ At(tiles, cursor).mode = "Revealed"
    /\ \E p \in Positions(tiles) : At(tiles, p).mode = "Flagged"
    /\ \E p \in Positions(tiles) : At(tiles, p).mode = "Hidden"


\* C21: every call of Tiles::reveal ends, on the boards the game reaches and
\* on the boards Tiles::new reveals first: it switches no tile to Revealed
\* twice, and the number of calls of Tiles::reveal it makes (itself included)
\* is at most the number of tiles Hidden at its start plus one.
C21_CascadeBounded ==
    LET hidden(t) == Cardinality({q \in Positions(t) : At(t, q).mode = "Hidden"})
        changed(t, u) == Cardinality({q \in Positions(t) : At(t, q).mode # At(u, q).mode})
        bounded(t, p) ==
            LET r == reveal_call(t, p)
            IN  /\ r.tiles = tiles_reveal(t, p)
                /\ r.switched = changed(t, r.tiles)
                /\ r.switched <= hidden(t)
                /\ r.steps <= hidden(t) + 1
    IN  /\ state = "Ongoing" => \A p \in Positions(tiles) : bounded(tiles, p)
        /\ ActedOngoing("reveal") => hist.mid = reveal_call(hist.tiles, cursor).tiles
        /\ (state = "Blank" /\ new_assert(size, mine_count)) =>
              \A m \in populate_mines(new_blank(size), mine_count, cursor) :
                  bounded(number_fields(m), cursor)

C21_Witness ==
    /\ ActedOngoing("reveal")
    /\ At(hist.tiles, cursor).mode = "Revealed"
    /\ reveal_call(hist.tiles, cursor).steps >= 4
    /\ reveal_call(hist.tiles, cursor).steps =
          Cardinality({q \in Positions(hist.tiles) : At(hist.tiles, q).mode = "Hidden"}) + 1
    /\ \E q \in Positions(hist.tiles) : At(hist.tiles, q).mode = "Flagged"


\* C22: the reveal step of a reveal() issued while Ongoing turns a Mine tile
\* Revealed only if the cursor tile was a Hidden Mine, or was a Revealed
\* Field(n) with exactly n Flagged neighbours at least one of which is not a
\* mine; a reveal started on a Hidden Field tile, a chord whose Flagged
\* neighbours are all mines, and the reveal of Tiles::new reveal no Mine.
C22_MineRevealedOnlyIf ==
    LET before == hist.tiles
        nbs == NeighbourSet(before, cursor)
        flagged == {q \in nbs : At(before, q).mode = "Flagged"}
        mine_revealed == \E p \in Positions(before) :
                            /\ At(hist.mid, p) = Tile("Revealed", Mine)
                            /\ At(before, p).mode # "Revealed"
    IN  /\ ActedOngoing("reveal") =>
              /\ mine_revealed =>
                    \/ At(before, cursor) = Tile("Hidden", Mine)
                    \/ /\ At(before, cursor).mode = "Revealed"
                       /\ At(before, cursor).content.kind = "Field"
                       /\ At(before, cursor).content.n = Cardinality(flagged)
                       /\ \E q \in flagged : At(before, q).content # Mine
              /\ (At(before, cursor).mode = "Hidden" /\ At(before, cursor).content.kind = "Field")
                    => ~ mine_revealed
              /\ (At(before, cursor).mode = "Revealed"
                  /\ \A q \in flagged : At(before, q).content = Mine)
                    => ~ mine_revealed
        /\ (state = "Ongoing" /\ hist.state = "Blank") =>
              \A p \in Positions(tiles) : At(tiles, p) # Tile("Revealed", Mine)

C22_Witness ==
    /\ ActedOngoing("reveal")
    /\ At(hist.tiles, cursor).mode = "Revealed"
    /\ At(hist.tiles, cursor).content.n = 2
    /\ \E p \in Positions(hist.tiles) :
          At(hist.mid, p) = Tile("Revealed", Mine) /\ At(hist.tiles, p).mode = "Hidden"
    /\ \E p \in Positions(hist.tiles) : At(hist.tiles, p) = Tile("Flagged", Mine)


\* C23: in every Finished state a Mistake(FlaggedField) tile exists only if a
\* Mistake(TrippedMine) tile exists; status() is Lost exactly when a
\* TrippedMine tile exists, which right after finishing is exactly when a
\* Mine tile was Revealed at the moment of finishing; a Won board has every
\* Field tile Revealed, every mine tile Flagged or Revealed with content
\* Mine, and no other content.
C23_FinishedBoards ==
    state = "Finished" =>
        LET tripped == \E p \in Positions(tiles) : At(tiles, p).content = TrippedMine
        IN  /\ (\E p \in Positions(tiles) : At(tiles, p).content.kind = "FlaggedField")
                  => tripped
            /\ status = "Lost" <=> tripped
            /\ hist.state = "Ongoing" =>
                  (status = "Lost" <=>
                      \E p \in Positions(hist.mid) : At(hist.mid, p) = Tile("Revealed", Mine))
            /\ status = "Won" =>
                  \A p \in Positions(tiles) :
                     \/ At(tiles, p).content.kind = "Field" /\ At(tiles, p).mode = "Revealed"
                     \/ At(tiles, p).content = Mine /\ At(tiles, p).mode \in {"Flagged", "Revealed"}

C23_Witness ==
    /\ state = "Finished"
    /\ hist.state = "Ongoing"
    /\ status = "Won"
    /\ \E p \in Positions(tiles) : At(tiles, p) = Tile("Flagged", Mine)
    /\ \E p \in Positions(tiles) : At(tiles, p) = Tile("Revealed", Mine)
    /\ \E p \in Positions(hist.tiles) : At(hist.tiles, p).mode = "Hidden"
                                        /\ At(hist.tiles, p).content.kind = "Field"


\* C24: in every Ongoing state of a round in which no flag() has turned a
\* tile Flagged, every neighbour of a Revealed Field(0) tile is Revealed.
C24_FloodFillComplete ==
    (state = "Ongoing" /\ ~ hist.flagged) =>
        \A p \in Positions(tiles) :
            At(tiles, p) = Tile("Revealed", Field(0)) =>
                \A q \in NeighbourSet(tiles, p) : At(tiles, q).mode = "Revealed"

C24_Witness ==
    /\ state = "Ongoing"
    /\ ~ hist.flagged
    /\ ActedOngoing("reveal")
    /\ At(hist.tiles, cursor) = Tile("Hidden", Field(0))
    /\ Cardinality({p \in Positions(tiles) : At(tiles, p).mode # At(hist.tiles, p).mode}) >= 2
    /\ \E p \in Positions(tiles) : At(tiles, p) = Tile("Hidden", Field(0))

====
